---- MODULE Spec2Model ----
(***************************************************************************)
(* Identity resolution and session authentication of the book-collection   *)
(* API: the Google verify callback (find / link / create a User), the      *)
(* User collection with its unique indexes, the login callback route that  *)
(* establishes a session, the session store as configured for              *)
(* express-session, the authentication gates and the logout route.         *)
(***************************************************************************)
EXTENDS Integers, Sequences, FiniteSets, TLC

(* ---------------------------------------------------------------- bounds *)
\* total number of login callbacks that may be started
MaxLogins == 2
\* total number of requests to protected routes that may be started
MaxRequests == 2
\* total number of logout requests that may be started
MaxLogouts == 1

(* ------------------------------------------------------------ input sets *)
Procs == {"p1", "p2"}

None == "none"

GoogleIds == {"g1", "g2"}

\* e-mail addresses are sequences of characters, so that lower-casing and
\* split('@') are computed and not assumed
EmailAX  == <<"a", "@", "x">>
EmailAXu == <<"A", "@", "x">>
EmailAY  == <<"a", "@", "y">>
EmailBX  == <<"b", "@", "x">>
Emails == {EmailAX, EmailAXu, EmailAY, EmailBX}

DisplayNames == {"Ann", "Ann K."}

\* profile.photos: empty when the provider sent no picture
PhotoLists == {<<>>, <<"ann.png">>}

\* the three gates the repository defines
Gates == {"tokenAuth", "requireAuth", "isAuthenticated"}

\* the token tokenAuth compares with, and the values a request can carry in
\* the X-API-Token header or the apiToken query parameter
TestToken == "test-token-123"
Tokens == {None, TestToken, "user-input"}

\* the (header, query) pairs a request carries: no token, the test token in
\* either place, another value, and another value in the header with the
\* test token in the query
TokenPairs ==
  {<<None, None>>, <<TestToken, None>>, <<None, TestToken>>,
   <<"user-input", None>>, <<None, "user-input">>,
   <<"user-input", TestToken>>}

\* a provider profile: profile.id, profile.emails (empty when the provider
\* sent no e-mail), profile.displayName, profile.photos
Profiles ==
  [id : GoogleIds,
   emails : {<<>>} \cup {<<e>> : e \in Emails},
   displayName : DisplayNames,
   photos : PhotoLists]

(* ------------------------------------------------------- string helpers *)
\* String.prototype.toLowerCase on one character
LowerChar(c) ==
  CASE c = "A" -> "a"
    [] c = "B" -> "b"
    [] OTHER -> c

\* schema option lowercase: true
Lower(s) == [i \in DOMAIN s |-> LowerChar(s[i])]

\* schema option trim: true
RECURSIVE Trim(_)
Trim(s) ==
  IF s = <<>> THEN s
  ELSE IF Head(s) = " " THEN Trim(Tail(s))
  ELSE IF s[Len(s)] = " " THEN Trim(SubSeq(s, 1, Len(s) - 1))
  ELSE s

\* email.split('@')[0]
RECURSIVE SplitAt0(_)
SplitAt0(s) ==
  IF s = <<>> THEN <<>>
  ELSE IF Head(s) = "@" THEN <<>>
  ELSE <<Head(s)>> \o SplitAt0(Tail(s))

\* the setters of userSchema.email, applied to stored values and to query
\* conditions
NormalizeEmail(e) == Lower(Trim(e))

(* ----------------------------------------------------------------- state *)
VARIABLES
  users,      \* the User collection: a set of documents
  nextId,     \* next _id the database hands out
  pc,         \* per login callback: position in the verify callback
  profile,    \* per login callback: the provider profile
  user,       \* per login callback: the local variable `user`
  result,     \* per login callback: what done(...) was called with
  path,       \* per login callback: which branch called done
  found,      \* per login callback: the document findOne returned
  fresh,      \* per login callback: no User held the e-mail when it began
  logins,     \* number of login callbacks started
  sessions,   \* the session store: [sid, passportUser], the payload a record
  nextSid,    \* next session id that is generated
  req,        \* the request in flight through a gate
  loggedOut,  \* session ids for which a logout has completed
  requests,   \* number of requests to protected routes started
  logouts,    \* number of logout requests started
  logoutResp, \* the answer of the last logout request
  loginResp,  \* the answer of the last request to a login endpoint
  oauth       \* isOAuthConfigured: client id and secret are both set

vars == <<users, nextId, pc, profile, user, result, path, found, fresh,
          logins, sessions, nextSid, req, loggedOut, requests, logouts,
          logoutResp, loginResp, oauth>>

loginVars == <<users, nextId, pc, profile, user, result, path, found, fresh,
               logins,
              loginResp, oauth>>
storeVars == <<users, nextId>>
sessionVars == <<sessions, nextSid>>
gateVars == <<req, loggedOut, requests, logouts, logoutResp>>

(* ------------------------------------------------------------ documents *)
NullUser ==
  [id |-> 0, googleId |-> None, username |-> <<>>, email |-> <<>>,
   displayName |-> None, profileImage |-> ""]

NullProfile ==
  [id |-> None, emails |-> <<>>, displayName |-> None, photos |-> <<>>]

NoResult == [kind |-> "none", err |-> None, id |-> 0]

\* a document that exists before any Google login: no googleId yet
SeedUser ==
  [id |-> 1, googleId |-> None, username |-> <<"a">>, email |-> EmailAY,
   displayName |-> "Ann", profileImage |-> ""]

\* a picture that is never taken from the profile
ProfileImage_Empty(photos) == ""

\* profile.photos?.[0]?.value || ''
ProfileImage(photos) == IF photos = <<>> THEN "" ELSE photos[1]

\* userSchema: the document as stored (setters applied)
UserDoc(id, googleId, displayName, email, username, profileImage) ==
  [id |-> id, googleId |-> googleId, username |-> Trim(username),
   email |-> NormalizeEmail(email), displayName |-> displayName,
   profileImage |-> profileImage]

\* the unique indexes of userSchema (username, email); googleId is only
\* sparse, it has no unique index
DuplicateKey_NoIndex(doc) == FALSE
DuplicateKey_NoEmailIndex(doc) ==
  \E u \in users : u.id # doc.id /\ u.username = doc.username
\* a collection whose only unique index is the one on email
DuplicateKey_EmailOnly(doc) ==
  \E u \in users : u.id # doc.id /\ u.email = doc.email
DuplicateKey(doc) ==
  \E u \in users :
    /\ u.id # doc.id
    /\ (u.username = doc.username \/ u.email = doc.email)

\* User.findOne({ googleId: id }): the documents the query can return
FindByGoogleId(gid) == {u \in users : u.googleId = gid}

\* a query that compares with the e-mail as the profile spells it
FindByEmail_Exact(email) == {u \in users : u.email = email}

\* User.findOne({ email: email })
FindByEmail(email) == {u \in users : u.email = NormalizeEmail(email)}

\* a lookup that ignores the id it is given
FindById_AnyUser(id) == users

\* User.findById(id)
FindById(id) == {u \in users : u.id = id}

(* ------------------------------------------------------- session codec *)
\* passport.serializeUser: only the id goes into the session; a payload is
\* written as the record of the user attributes it carries
SerializeUser(u) == [id |-> u.id]

\* passport.deserializeUser: User.findById(id); null when no such document
DeserializeUser(id) == IF FindById(id) = {} THEN NullUser
                       ELSE CHOOSE u \in FindById(id) : TRUE

\* express-session store.set(sid, session): an upsert keyed by sid
StoreSet(store, sid, passportUser) ==
  {r \in store : r.sid # sid} \cup {[sid |-> sid, passportUser |-> passportUser]}

\* express-session store.destroy(sid)
StoreDestroy(store, sid) == {r \in store : r.sid # sid}

\* express-session store.get(sid): the stored records with that id
StoreGet(sid) == {r \in sessions : r.sid = sid}

(* -------------------------------------------------- the verify callback *)
\* a verify callback that starts with the lookup by e-mail
BeginLogin_EmailFirst(p, prof) ==
  /\ oauth
  /\ pc[p] = "idle"
  /\ logins < MaxLogins
  /\ prof.emails # <<>>
  /\ logins' = logins + 1
  /\ pc' = [pc EXCEPT ![p] = "findOne_email"]
  /\ profile' = [profile EXCEPT ![p] = prof]
  /\ fresh' = [fresh EXCEPT ![p] = FindByEmail(prof.emails[1]) = {}]
  /\ UNCHANGED <<users, nextId, user, result, path, found>>
  /\ UNCHANGED <<sessionVars, gateVars, loginResp, oauth>>

\* the strategy is invoked with the provider profile of one login attempt
BeginLogin(p, prof) ==
  /\ oauth
  /\ pc[p] = "idle"
  /\ logins < MaxLogins
  /\ logins' = logins + 1
  /\ pc' = [pc EXCEPT ![p] = "findOne_googleId"]
  /\ profile' = [profile EXCEPT ![p] = prof]
  /\ fresh' = [fresh EXCEPT ![p] =
        prof.emails # <<>> /\ FindByEmail(prof.emails[1]) = {}]
  /\ UNCHANGED <<users, nextId, user, result, path, found>>
  /\ UNCHANGED <<sessionVars, gateVars, loginResp, oauth>>

\* a googleId lookup that stores the profile's displayName on a match
FindOneGoogleId_Refresh(p) ==
  /\ pc[p] = "findOne_googleId"
  /\ LET m == FindByGoogleId(profile[p].id) IN
       IF m # {}
       THEN \E u \in m :
              /\ user' = [user EXCEPT ![p] = u]
              /\ found' = [found EXCEPT ![p] = u]
              /\ result' = [result EXCEPT ![p] =
                    [kind |-> "ok", err |-> None, id |-> u.id]]
              /\ path' = [path EXCEPT ![p] = "fast"]
              /\ pc' = [pc EXCEPT ![p] = "done"]
       ELSE IF profile[p].emails = <<>>
       THEN /\ result' = [result EXCEPT ![p] =
                  [kind |-> "error", err |-> "TypeError", id |-> 0]]
            /\ path' = [path EXCEPT ![p] = "throw"]
            /\ pc' = [pc EXCEPT ![p] = "done"]
            /\ UNCHANGED <<user, found>>
       ELSE /\ pc' = [pc EXCEPT ![p] = "findOne_email"]
            /\ UNCHANGED <<user, found, result, path>>
  /\ users' = IF FindByGoogleId(profile[p].id) # {}
              THEN {IF u.googleId = profile[p].id
                    THEN [u EXCEPT !.displayName = profile[p].displayName]
                    ELSE u : u \in users}
              ELSE users
  /\ UNCHANGED <<nextId, profile, fresh, logins>>
  /\ UNCHANGED <<sessionVars, gateVars, loginResp, oauth>>

\* let user = await User.findOne({ googleId: profile.id }); if (user) return
\* done(null, user); const email = profile.emails[0].value
FindOneGoogleId(p) ==
  /\ pc[p] = "findOne_googleId"
  /\ LET m == FindByGoogleId(profile[p].id) IN
       IF m # {}
       THEN \E u \in m :
              /\ user' = [user EXCEPT ![p] = u]
              /\ found' = [found EXCEPT ![p] = u]
              /\ result' = [result EXCEPT ![p] =
                    [kind |-> "ok", err |-> None, id |-> u.id]]
              /\ path' = [path EXCEPT ![p] = "fast"]
              /\ pc' = [pc EXCEPT ![p] = "done"]
       ELSE IF profile[p].emails = <<>>
       THEN /\ result' = [result EXCEPT ![p] =
                  [kind |-> "error", err |-> "TypeError", id |-> 0]]
            /\ path' = [path EXCEPT ![p] = "throw"]
            /\ pc' = [pc EXCEPT ![p] = "done"]
            /\ UNCHANGED <<user, found>>
       ELSE /\ pc' = [pc EXCEPT ![p] = "findOne_email"]
            /\ UNCHANGED <<user, found, result, path>>
  /\ UNCHANGED <<users, nextId, profile, fresh, logins>>
  /\ UNCHANGED <<sessionVars, gateVars, loginResp, oauth>>

\* user = await User.findOne({ email: email }); if (user) user.googleId =
\* profile.id; else user = new User({...})
FindOneEmail(p) ==
  /\ pc[p] = "findOne_email"
  /\ LET email == profile[p].emails[1]
         m == FindByEmail(email) IN
       IF m # {}
       THEN \E u \in m :
              /\ user' = [user EXCEPT ![p] =
                    [u EXCEPT !.googleId = profile[p].id]]
              /\ found' = [found EXCEPT ![p] = u]
              /\ path' = [path EXCEPT ![p] = "link"]
              /\ pc' = [pc EXCEPT ![p] = "save_link"]
              /\ UNCHANGED nextId
       ELSE /\ user' = [user EXCEPT ![p] =
                  UserDoc(nextId, profile[p].id, profile[p].displayName,
                          email, SplitAt0(email),
                          ProfileImage(profile[p].photos))]
            /\ nextId' = nextId + 1
            /\ path' = [path EXCEPT ![p] = "create"]
            /\ pc' = [pc EXCEPT ![p] = "save_new"]
            /\ UNCHANGED found
  /\ UNCHANGED <<users, profile, result, fresh, logins>>
  /\ UNCHANGED <<sessionVars, gateVars, loginResp, oauth>>

\* a link that also derives the username again from the profile's e-mail
SaveLink_RederivesUsername(p) ==
  /\ pc[p] = "save_link"
  /\ users' = {IF u.id = user[p].id
                THEN [u EXCEPT !.googleId = user[p].googleId,
                               !.username =
                                  Trim(SplitAt0(profile[p].emails[1]))]
                ELSE u : u \in users}
  /\ result' = [result EXCEPT ![p] =
        [kind |-> "ok", err |-> None, id |-> user[p].id]]
  /\ pc' = [pc EXCEPT ![p] = "done"]
  /\ UNCHANGED <<nextId, profile, user, path, found, fresh, logins>>
  /\ UNCHANGED <<sessionVars, gateVars, loginResp, oauth>>

\* await user.save() of the found document: writes the modified path
\* googleId of the document with that _id; done(null, user)
SaveLink(p) ==
  /\ pc[p] = "save_link"
  /\ users' = {IF u.id = user[p].id
                THEN [u EXCEPT !.googleId = user[p].googleId]
                ELSE u : u \in users}
  /\ result' = [result EXCEPT ![p] =
        [kind |-> "ok", err |-> None, id |-> user[p].id]]
  /\ pc' = [pc EXCEPT ![p] = "done"]
  /\ UNCHANGED <<nextId, profile, user, path, found, fresh, logins>>
  /\ UNCHANGED <<sessionVars, gateVars, loginResp, oauth>>

\* await user.save() of the new document: an insert, rejected with E11000
\* by a unique index; the catch block calls done(error, null)
SaveNew(p) ==
  /\ pc[p] = "save_new"
  /\ IF DuplicateKey(user[p])
     THEN /\ result' = [result EXCEPT ![p] =
                [kind |-> "error", err |-> "E11000", id |-> 0]]
          /\ UNCHANGED users
     ELSE /\ users' = users \cup {user[p]}
          /\ result' = [result EXCEPT ![p] =
                [kind |-> "ok", err |-> None, id |-> user[p].id]]
  /\ pc' = [pc EXCEPT ![p] = "done"]
  /\ UNCHANGED <<nextId, profile, user, path, found, fresh, logins>>
  /\ UNCHANGED <<sessionVars, gateVars, loginResp, oauth>>

\* a query or save rejects because the database cannot be reached: the
\* catch block calls done(error, null); nothing is attempted again
StorageFail(p) ==
  /\ pc[p] \in {"findOne_googleId", "findOne_email", "save_link", "save_new"}
  /\ result' = [result EXCEPT ![p] =
        [kind |-> "error", err |-> "StorageUnavailable", id |-> 0]]
  /\ pc' = [pc EXCEPT ![p] = "done"]
  /\ UNCHANGED <<users, nextId, profile, user, path, found, fresh, logins>>
  /\ UNCHANGED <<sessionVars, gateVars, loginResp, oauth>>

\* attempt: the number of the login attempt an answer given before the
\* verify callback belongs to, 0 for every other answer
NoLoginResp ==
  [route |-> None, status |-> 0, success |-> FALSE, err |-> None,
   attempt |-> 0]

\* the error handling middleware: every error passed to next() is answered
\* with status 500 and success false
ErrorHandler(route, err) ==
  [route |-> route, status |-> 500, success |-> FALSE, err |-> err,
   attempt |-> 0]

\* res.redirect('/auth/success') at the end of the callback handler
RedirectSuccess(route) ==
  [route |-> route, status |-> 302, success |-> TRUE, err |-> None,
   attempt |-> 0]

\* GET /auth/google/callback after the strategy called done: on an error
\* passport calls next(err) and the route handler never runs; otherwise the
\* session is regenerated, the user is logged in (serializeUser), the
\* session is saved and the browser is redirected
AuthCallback(p) ==
  /\ pc[p] = "done"
  /\ loginResp' = IF result[p].kind = "ok"
                  THEN RedirectSuccess("/auth/google/callback")
                  ELSE ErrorHandler("/auth/google/callback", result[p].err)
  /\ IF result[p].kind = "ok"
     THEN /\ sessions' = StoreSet(sessions, nextSid,
                                   SerializeUser(user[p]))
          /\ nextSid' = nextSid + 1
     ELSE UNCHANGED sessionVars
  /\ pc' = [pc EXCEPT ![p] = "idle"]
  /\ profile' = [profile EXCEPT ![p] = NullProfile]
  /\ user' = [user EXCEPT ![p] = NullUser]
  /\ found' = [found EXCEPT ![p] = NullUser]
  /\ result' = [result EXCEPT ![p] = NoResult]
  /\ path' = [path EXCEPT ![p] = None]
  /\ fresh' = [fresh EXCEPT ![p] = FALSE]
  /\ UNCHANGED <<users, nextId, logins, oauth>>
  /\ UNCHANGED gateVars

\* an unconfigured login endpoint that answers with res.json({ error })
OAuthUnavailable_Json(route) ==
  [route |-> route, status |-> 200, success |-> FALSE, err |-> None,
   attempt |-> 0]

\* res.status(503).json({ success: false, message })
OAuthUnavailable(route) ==
  [route |-> route, status |-> 503, success |-> FALSE, err |-> None,
   attempt |-> 0]

LoginRoutes == {"/auth/google", "/auth/google/callback"}

\* the login endpoints when client id or secret is absent: no strategy is
\* registered, both routes answer 503; the request's new anonymous session
\* is saved at the end of the response
LoginUnavailable(route) ==
  /\ ~oauth
  /\ logins < MaxLogins
  /\ logins' = logins + 1
  /\ loginResp' = [OAuthUnavailable(route) EXCEPT !.attempt = logins + 1]
  /\ sessions' = StoreSet(sessions, nextSid, [id |-> 0])
  /\ nextSid' = nextSid + 1
  /\ UNCHANGED <<users, nextId, pc, profile, user, result, path, found,
                 fresh, oauth>>
  /\ UNCHANGED gateVars

HandshakeOutcomes == {"denied", "error"}

\* res.redirect('/auth/failure') on strategy.fail, next(err) on
\* strategy.error
HandshakeResponse(outcome) ==
  IF outcome = "denied"
  THEN [route |-> "/auth/google/callback", status |-> 302,
        success |-> FALSE, err |-> "HandshakeFailed", attempt |-> 0]
  ELSE ErrorHandler("/auth/google/callback", "HandshakeFailed")

\* a failed handshake that still stores a user from the partial profile
HandshakeFail_StoresUser(outcome) ==
  /\ oauth
  /\ logins < MaxLogins
  /\ logins' = logins + 1
  /\ loginResp' = [HandshakeResponse(outcome) EXCEPT !.attempt = logins + 1]
  /\ users' = users \cup {UserDoc(nextId, "g1", "Ann", <<>>, <<>>, "")}
  /\ nextId' = nextId + 1
  /\ sessions' = StoreSet(sessions, nextSid, [id |-> 0])
  /\ nextSid' = nextSid + 1
  /\ UNCHANGED <<pc, profile, user, result, path, found, fresh, oauth>>
  /\ UNCHANGED gateVars

\* GET /auth/google/callback when the provider denied the login, or the
\* code exchange failed or timed out: passport.authenticate ends the request
\* before the verify callback is called; the anonymous session of the
\* request is saved at the end of the response
HandshakeFail(outcome) ==
  /\ oauth
  /\ logins < MaxLogins
  /\ logins' = logins + 1
  /\ loginResp' = [HandshakeResponse(outcome) EXCEPT !.attempt = logins + 1]
  /\ sessions' = StoreSet(sessions, nextSid, [id |-> 0])
  /\ nextSid' = nextSid + 1
  /\ UNCHANGED <<users, nextId, pc, profile, user, result, path, found,
                 fresh, oauth>>
  /\ UNCHANGED gateVars

(* ------------------------------- config/passport.js, loaded by server.js *)
\* passport.serializeUser(function(user, done) { done(null, user) }): the
\* whole user object goes into the session
ConfigSerializeUser(u) == u

\* the verify function of config/passport.js: return done(null, profile)
ConfigVerify(p, prof) ==
  /\ oauth
  /\ pc[p] = "idle"
  /\ logins < MaxLogins
  /\ logins' = logins + 1
  /\ profile' = [profile EXCEPT ![p] = prof]
  /\ result' = [result EXCEPT ![p] = [kind |-> "ok", err |-> None, id |-> 0]]
  /\ pc' = [pc EXCEPT ![p] = "done"]
  /\ UNCHANGED <<users, nextId, user, path, found, fresh>>
  /\ UNCHANGED <<sessionVars, gateVars, loginResp, oauth>>

\* the callback handler of server.js with req.user the profile: regenerate,
\* req.logIn (serializeUser), session.save, redirect
ConfigCallback(p) ==
  /\ pc[p] = "done"
  /\ sessions' = StoreSet(sessions, nextSid,
                          ConfigSerializeUser(profile[p]))
  /\ nextSid' = nextSid + 1
  /\ loginResp' = RedirectSuccess("/auth/google/callback")
  /\ pc' = [pc EXCEPT ![p] = "idle"]
  /\ profile' = [profile EXCEPT ![p] = NullProfile]
  /\ result' = [result EXCEPT ![p] = NoResult]
  /\ UNCHANGED <<users, nextId, user, path, found, fresh, logins, oauth>>
  /\ UNCHANGED gateVars

(* ------------------------------------------------- per-request pipeline *)
NoReq ==
  [phase |-> "idle", gate |-> None, header |-> None, query |-> None,
   cookie |-> 0, sid |-> 0, loaded |-> 0, passportUser |-> 0,
   userId |-> 0,
   authBy |-> None, replayed |-> FALSE, nextCalled |-> FALSE,
   status |-> 0, success |-> TRUE, body |-> {},
   userFields |-> {}, nexts |-> 0, sent |-> 0]

\* express-session on an incoming request: the stored session of the
\* cookie's id, or a newly generated one when the store has none
LoadedSid(cookie) == IF StoreGet(cookie) # {} THEN cookie ELSE nextSid
LoadedPassportUser(cookie) ==
  IF StoreGet(cookie) # {}
  THEN (CHOOSE r \in StoreGet(cookie) : TRUE).passportUser.id
  ELSE 0

\* a deserializer that answers a missing user with the stub { id: id }
SessionUserId_Stub(cookie) == LoadedPassportUser(cookie)

\* passport.session(): req.user is the deserialized user of
\* session.passport.user; a payload that deserializes to null is deleted
\* from the session
SessionUserId(cookie) ==
  IF LoadedPassportUser(cookie) # 0
     /\ DeserializeUser(LoadedPassportUser(cookie)) # NullUser
  THEN LoadedPassportUser(cookie)
  ELSE 0

\* req.header('X-API-Token') || req.query.apiToken
PresentedToken(header, query) == IF header # None THEN header ELSE query

\* the condition under which each gate calls next()
GatePasses(gate, header, query, cookie) ==
  \/ gate = "tokenAuth" /\ PresentedToken(header, query) = TestToken
  \/ SessionUserId(cookie) # 0

\* the fake user tokenAuth puts into req.user
TestUser ==
  [id |-> "test-user-123", displayName |-> "API Test User",
   email |-> "test@example.com"]

\* a tokenAuth whose token branch calls next() without returning
GateRun_NoReturn(gate, header, query, cookie) ==
  IF gate = "tokenAuth" /\ PresentedToken(header, query) = TestToken
  THEN IF SessionUserId(cookie) # 0
       THEN [nexts |-> 2, sent |-> 0]
       ELSE [nexts |-> 1, sent |-> 1]
  ELSE IF SessionUserId(cookie) # 0
  THEN [nexts |-> 1, sent |-> 0]
  ELSE [nexts |-> 0, sent |-> 1]

\* the body of each gate, branch by branch: how often it calls next() and
\* how often it sends the 401 response
GateRun(gate, header, query, cookie) ==
  IF gate = "tokenAuth" /\ PresentedToken(header, query) = TestToken
  THEN [nexts |-> 1, sent |-> 0]
  ELSE IF SessionUserId(cookie) # 0
  THEN [nexts |-> 1, sent |-> 0]
  ELSE [nexts |-> 0, sent |-> 1]

\* the fields of the 401 body each gate sends
RejectBody(gate) ==
  CASE gate = "tokenAuth" -> {"success", "message", "options"}
    [] gate = "requireAuth" ->
         {"success", "message", "loginUrl", "authenticated"}
    [] gate = "isAuthenticated" -> {"success", "message", "loginUrl"}

\* a request to a protected route: session middleware, passport.session(),
\* then the gate.  A rejection ends the response at once, and the session
\* is saved at the end of the response (resave: true, saveUninitialized:
\* true); an accepted request continues into the route handler
GateRequest(gate, header, query, cookie) ==
  /\ req.phase # "handler"
  /\ requests < MaxRequests
  /\ requests' = requests + 1
  /\ nextSid' = IF StoreGet(cookie) # {} THEN nextSid ELSE nextSid + 1
  /\ LET pass == GatePasses(gate, header, query, cookie)
         byToken == gate = "tokenAuth"
                    /\ PresentedToken(header, query) = TestToken
     IN
       /\ req' = [phase |-> IF pass THEN "handler" ELSE "responded",
                  gate |-> gate, header |-> header, query |-> query,
                  cookie |-> cookie, sid |-> LoadedSid(cookie),
                  loaded |-> LoadedPassportUser(cookie),
                  passportUser |-> SessionUserId(cookie),
                  userId |-> SessionUserId(cookie),
                  authBy |-> IF byToken THEN "token"
                             ELSE IF pass THEN "session" ELSE None,
                  replayed |-> cookie \in loggedOut,
                  nextCalled |->
                    GateRun(gate, header, query, cookie).nexts > 0,
                  status |->
                    IF GateRun(gate, header, query, cookie).sent > 0
                    THEN 401 ELSE 0,
                  success |-> pass,
                  body |-> IF pass THEN {} ELSE RejectBody(gate),
                  userFields |->
                    IF byToken THEN DOMAIN TestUser
                    ELSE IF SessionUserId(cookie) # 0
                    THEN DOMAIN DeserializeUser(SessionUserId(cookie))
                    ELSE {},
                  nexts |-> GateRun(gate, header, query, cookie).nexts,
                  sent |-> GateRun(gate, header, query, cookie).sent]
       /\ sessions' = IF pass THEN sessions
                      ELSE StoreSet(sessions, LoadedSid(cookie),
                                    [id |-> SessionUserId(cookie)])
  /\ UNCHANGED <<loginVars, loggedOut, logouts, logoutResp>>

\* the route handler finishes: the response ends and express-session saves
\* the request's copy of the session back to the store
HandlerEnd ==
  /\ req.phase = "handler"
  /\ req' = [req EXCEPT !.phase = "responded", !.status = 200]
  /\ sessions' = StoreSet(sessions, req.sid, [id |-> req.passportUser])
  /\ UNCHANGED <<loginVars, nextSid, loggedOut, requests, logouts,
                 logoutResp>>

\* what req.logout does to the store: the session is saved without its
\* user and regenerated, which destroys the record of the old id
PassportLogout(store, sid) ==
  StoreDestroy(StoreSet(store, sid, [id |-> 0]), sid)

NoLogoutResp ==
  [cookie |-> 0, wasLoggedIn |-> FALSE, status |-> 0, success |-> FALSE]

\* GET /auth/logout: without a logged-in user it answers success and the
\* session is saved at the end of the response; otherwise req.logout, then
\* req.session.destroy of the regenerated session, then the answer
Logout(cookie) ==
  /\ logouts < MaxLogouts
  /\ logouts' = logouts + 1
  /\ logoutResp' = [cookie |-> cookie,
                    wasLoggedIn |-> SessionUserId(cookie) # 0,
                    status |-> 200, success |-> TRUE]
  /\ IF SessionUserId(cookie) = 0
     THEN /\ sessions' = StoreSet(sessions, LoadedSid(cookie), [id |-> 0])
          /\ nextSid' = IF StoreGet(cookie) # {} THEN nextSid
                        ELSE nextSid + 1
          /\ UNCHANGED loggedOut
     ELSE /\ sessions' = StoreDestroy(PassportLogout(sessions, cookie),
                                      nextSid)
          /\ nextSid' = nextSid + 1
          /\ loggedOut' = loggedOut \cup {cookie}
  /\ UNCHANGED <<loginVars, req, requests>>

\* passport.deserializeUser(function(user, done) { done(null, user) }): the
\* stored object is req.user
ConfigDeserializeUser(u) == u

\* the payload of a session nobody is logged in to, under config/passport.js
ConfigAnonymous == [id |-> None]

\* the session payload express-session loads for a cookie
ConfigLoaded(cookie) ==
  IF StoreGet(cookie) # {}
  THEN (CHOOSE r \in StoreGet(cookie) : TRUE).passportUser
  ELSE ConfigAnonymous

\* a request to a protected route when config/passport.js is the session
\* codec: req.user is the stored profile; the gate decides, the handler
\* runs, and the session is saved when the response ends
ConfigGateRequest(gate, header, query, cookie) ==
  /\ requests < MaxRequests
  /\ requests' = requests + 1
  /\ nextSid' = IF StoreGet(cookie) # {} THEN nextSid ELSE nextSid + 1
  /\ LET payload == ConfigLoaded(cookie)
         authed == payload.id # None
         byToken == gate = "tokenAuth"
                    /\ PresentedToken(header, query) = TestToken
         pass == byToken \/ authed
     IN
       /\ req' = [NoReq EXCEPT
                    !.phase = "responded",
                    !.gate = gate, !.header = header, !.query = query,
                    !.cookie = cookie, !.sid = LoadedSid(cookie),
                    !.authBy = IF byToken THEN "token"
                               ELSE IF pass THEN "session" ELSE None,
                    !.nextCalled = pass,
                    !.status = IF pass THEN 200 ELSE 401,
                    !.success = pass,
                    !.body = IF pass THEN {} ELSE RejectBody(gate),
                    !.userFields =
                       IF byToken THEN DOMAIN TestUser
                       ELSE IF authed
                       THEN DOMAIN ConfigDeserializeUser(payload)
                       ELSE {},
                    !.nexts = IF pass THEN 1 ELSE 0,
                    !.sent = IF pass THEN 0 ELSE 1]
       /\ sessions' = StoreSet(sessions, LoadedSid(cookie), payload)
  /\ UNCHANGED <<loginVars, loggedOut, logouts, logoutResp>>

\* a user document is removed from the collection outside the application
DeleteUser(u) ==
  /\ u \in users
  /\ users' = users \ {u}
  /\ UNCHANGED <<nextId, pc, profile, user, result, path, found, fresh,
                 logins, loginResp, oauth>>
  /\ UNCHANGED <<sessionVars, gateVars>>

(* -------------------------------------------------------- specifications *)
Init ==
  /\ users \in {{}, {SeedUser}}
  /\ nextId = 2
  /\ pc = [p \in Procs |-> "idle"]
  /\ profile = [p \in Procs |-> NullProfile]
  /\ user = [p \in Procs |-> NullUser]
  /\ found = [p \in Procs |-> NullUser]
  /\ result = [p \in Procs |-> NoResult]
  /\ path = [p \in Procs |-> None]
  /\ fresh = [p \in Procs |-> FALSE]
  /\ logins = 0
  /\ sessions = {}
  /\ nextSid = 1
  /\ req = NoReq
  /\ loggedOut = {}
  /\ requests = 0
  /\ logouts = 0
  /\ logoutResp = NoLogoutResp
  /\ loginResp = NoLoginResp
  /\ oauth \in BOOLEAN

\* the profiles of concurrent logins: all of them carry a picture
LoginProfiles == {prof \in Profiles : prof.photos # <<>>}

\* concurrent login callbacks
Next ==
  \/ \E p \in Procs, prof \in LoginProfiles : BeginLogin(p, prof)
  \/ \E p \in Procs : FindOneGoogleId(p)
  \/ \E p \in Procs : FindOneEmail(p)
  \/ \E p \in Procs : SaveLink(p)
  \/ \E p \in Procs : SaveNew(p)
  \/ \E p \in Procs : StorageFail(p)
  \/ \E outcome \in HandshakeOutcomes : HandshakeFail(outcome)
  \/ \E p \in Procs : AuthCallback(p)
  \/ \E route \in LoginRoutes : LoginUnavailable(route)

Spec == Init /\ [][Next]_vars

\* the profile of the one browser that logs in under GateSpec
GateProfiles ==
  {prof \in Profiles : prof.id = "g1" /\ prof.displayName = "Ann"
                        /\ prof.emails = <<EmailAY>>
                        /\ prof.photos = <<"ann.png">>}

\* the session cookies that browser can present: none, or an id the store
\* holds or held
Cookies == {0} \cup {r.sid : r \in sessions} \cup loggedOut

\* one browser that logs in while it holds no logged-in session, sends
\* requests to protected routes and logs out, also while one of its
\* requests is still in its route handler
GateNext ==
  \/ /\ \A r \in sessions : r.passportUser.id = 0
     /\ \E prof \in GateProfiles : BeginLogin("p1", prof)
  \/ FindOneGoogleId("p1")
  \/ FindOneEmail("p1")
  \/ SaveLink("p1")
  \/ SaveNew("p1")
  \/ AuthCallback("p1")
  \/ \E g \in Gates, t \in TokenPairs, c \in Cookies :
       GateRequest(g, t[1], t[2], c)
  \/ HandlerEnd
  \/ \E c \in Cookies : Logout(c)

GateSpec == Init /\ [][GateNext]_vars

(* ---------------------------------------------------------------- claims *)
\* two login callbacks that have both called done, presented the same
\* profile id and the same e-mail, and began while no User held that e-mail
ConcurrentSameLogin(p, q) ==
  /\ p # q
  /\ pc[p] = "done" /\ pc[q] = "done"
  /\ profile[p].emails # <<>>
  /\ profile[p].emails = profile[q].emails
  /\ profile[p].id = profile[q].id
  /\ fresh[p] /\ fresh[q]

\* C1 (as stated): after two concurrent logins with the same new e-mail and
\* the same externalId the store holds exactly one User with that
\* externalId and that e-mail
C1_ExactlyOne ==
  \A p \in Procs, q \in Procs :
    ConcurrentSameLogin(p, q) =>
      Cardinality({u \in FindByEmail(profile[p].emails[1]) :
                     u.googleId = profile[p].id}) = 1

\* C1 (amended): after two concurrent logins with the same new e-mail and
\* the same externalId the store holds at most one User with that e-mail,
\* that User carries the externalId, and it holds none only when each of
\* the two logins was rejected by a unique index, failed on the database or
\* was resolved by the externalId lookup
C1_NeverTwo ==
  \A p \in Procs, q \in Procs :
    ConcurrentSameLogin(p, q) =>
      LET held == FindByEmail(profile[p].emails[1]) IN
        /\ Cardinality(held) <= 1
        /\ \A u \in held : u.googleId = profile[p].id
        /\ held = {} =>
             \A r \in {p, q} :
               \/ result[r].err \in {"E11000", "StorageUnavailable"}
               \/ path[r] = "fast"

\* C1 witness: both logins took the create path, one insert was accepted
\* and the other was rejected by the unique index
C1_Witness ==
  \E p \in Procs, q \in Procs :
    /\ ConcurrentSameLogin(p, q)
    /\ path[p] = "create" /\ result[p].kind = "ok"
    /\ path[q] = "create" /\ result[q].err = "E11000"
    /\ Cardinality(FindByEmail(profile[p].emails[1])) = 1

\* C2 (as stated): a login whose insert met a User that a concurrent login
\* just created with the same e-mail, the database being reachable,
\* completes successfully and returns that User
C2_RaceResolved ==
  \A p \in Procs :
    (/\ pc[p] = "done"
     /\ path[p] = "create"
     /\ result[p].err # "StorageUnavailable"
     /\ FindByEmail(profile[p].emails[1]) # {})
    => /\ result[p].kind = "ok"
       /\ \E u \in FindByEmail(profile[p].emails[1]) : u.id = result[p].id

\* C3: no two Users have the same e-mail
C3_EmailUnique ==
  \A u \in users, v \in users : u.email = v.email => u = v

\* C3 witness: an insert was rejected because a User with that e-mail
\* exists, and the store holds several Users
C3_Witness ==
  \E p \in Procs :
    /\ pc[p] = "done"
    /\ result[p].err = "E11000"
    /\ \E u \in users : u.email = user[p].email /\ u.username # user[p].username
    /\ Cardinality(users) >= 2

\* C4 (as stated): no two Users have the same non-empty externalId
C4_GoogleIdUnique ==
  \A u \in users, v \in users :
    (u.googleId # None /\ u.googleId = v.googleId) => u = v

\* C5 (as stated): a User whose externalId is set keeps that value in every
\* later state
C5_GoogleIdStable ==
  [][\A u \in users :
       u.googleId # None =>
         \E v \in users' : v.id = u.id /\ v.googleId = u.googleId]_vars

\* C6 (as stated): a login whose e-mail matches a User that is linked to a
\* different externalId fails with ConflictingLink and leaves that User
\* unchanged
C6_ConflictingLinkByEmail ==
  \A p \in Procs :
    (/\ pc[p] = "done"
     /\ path[p] = "link"
     /\ found[p].googleId # None
     /\ found[p].googleId # profile[p].id)
    => /\ result[p].kind = "error"
       /\ result[p].err = "ConflictingLink"
       /\ found[p] \in users

\* C7 (as stated): a login whose externalId is linked to a User with a
\* different e-mail fails with ConflictingLink instead of returning that
\* User
C7_ConflictingLinkByGoogleId ==
  \A p \in Procs :
    (/\ pc[p] = "done"
     /\ path[p] = "fast"
     /\ profile[p].emails # <<>>
     /\ found[p].email # NormalizeEmail(profile[p].emails[1]))
    => /\ result[p].kind = "error"
       /\ result[p].err = "ConflictingLink"

\* C8 (as stated): a gate calls next() if and only if the request presents
\* the test token or its session decodes to a User
C8_PassIffTokenOrSession ==
  req.phase # "idle" =>
    (req.nextCalled <=>
       \/ PresentedToken(req.header, req.query) = TestToken
       \/ req.userId # 0)

\* C9 (as stated): every rejection of a gate is a 401 whose body has
\* success = false, a message and a loginUrl
C9_RejectionBody ==
  (req.phase # "idle" /\ ~req.nextCalled) =>
    /\ req.status = 401
    /\ req.success = FALSE
    /\ {"success", "message", "loginUrl"} \subseteq req.body

\* C10 (as stated): once a logout has completed for a session id, the store
\* holds no session of that id and a request that presents it without the
\* test token is rejected
C10_LoggedOutStaysOut ==
  /\ \A s \in loggedOut : StoreGet(s) = {}
  /\ (/\ req.phase # "idle"
      /\ req.replayed
      /\ PresentedToken(req.header, req.query) # TestToken)
     => (~req.nextCalled /\ req.status = 401)

\* one login callback at a time, with every profile
SoloNext ==
  \/ \E prof \in Profiles : BeginLogin("p1", prof)
  \/ FindOneGoogleId("p1")
  \/ FindOneEmail("p1")
  \/ SaveLink("p1")
  \/ SaveNew("p1")
  \/ StorageFail("p1")
  \/ AuthCallback("p1")

SoloSpec == Init /\ [][SoloNext]_vars

\* the profiles of the one browser that logs in under ConfigSpec
ConfigProfiles ==
  {prof \in Profiles : prof.id = "g1" /\ prof.displayName = "Ann"
                        /\ prof.emails = <<EmailAY>>}

\* one browser's logins and requests as config/passport.js and server.js
\* handle them
ConfigNext ==
  \/ \E prof \in ConfigProfiles : ConfigVerify("p1", prof)
  \/ ConfigCallback("p1")
  \/ \E g \in Gates, t \in TokenPairs, c \in Cookies :
       ConfigGateRequest(g, t[1], t[2], c)

ConfigSpec == Init /\ [][ConfigNext]_vars

\* one browser that logs in and sends requests to protected routes, while
\* user documents are removed out-of-band
DeletionNext ==
  \/ /\ \A r \in sessions : r.passportUser.id = 0
     /\ \E prof \in GateProfiles : BeginLogin("p1", prof)
  \/ FindOneGoogleId("p1")
  \/ FindOneEmail("p1")
  \/ SaveLink("p1")
  \/ SaveNew("p1")
  \/ AuthCallback("p1")
  \/ \E g \in Gates, t \in TokenPairs, c \in Cookies :
       GateRequest(g, t[1], t[2], c)
  \/ HandlerEnd
  \/ \E u \in users : DeleteUser(u)

DeletionSpec == Init /\ [][DeletionNext]_vars

\* C11 (as stated): a logout without a logged-in session answers success
\* and changes neither the session store nor the User collection
C11_LogoutNoOp ==
  [][(logouts' # logouts /\ ~logoutResp'.wasLoggedIn) =>
       /\ logoutResp'.success
       /\ sessions' = sessions
       /\ users' = users]_vars

\* C12 (as stated): the payload of every session record carries the id of
\* the logged-in user and no other attribute of it
C12_PayloadIsIdOnly ==
  \A r \in sessions : DOMAIN r.passportUser = {"id"}

\* C13: deserializing what serializeUser stored yields the user with the
\* same id, for every stored user and for every logged-in session, whatever
\* happened to the user's other fields since the session was written
C13_RoundTripId ==
  /\ \A u \in users : DeserializeUser(SerializeUser(u).id).id = u.id
  /\ \A r \in sessions :
        r.passportUser.id # 0 =>
          DeserializeUser(r.passportUser.id).id = r.passportUser.id

\* a session of a user whose googleId was rewritten after the session was
\* stored
C13_Witness ==
  \E r \in sessions, p \in Procs :
    /\ pc[p] = "done" /\ path[p] = "link"
    /\ r.passportUser.id = user[p].id
    /\ found[p].googleId \notin {None, user[p].googleId}
    /\ DeserializeUser(r.passportUser.id).googleId = user[p].googleId

C15_UnconfiguredIs503 ==
  ~oauth =>
    /\ loginResp # NoLoginResp =>
          loginResp.status = 503 /\ ~loginResp.success
    /\ users \subseteq {SeedUser}
    /\ nextId = 2
    /\ \A r \in sessions : r.passportUser.id = 0

\* the callback endpoint was requested without configuration
C15_Witness ==
  /\ ~oauth
  /\ loginResp.route = "/auth/google/callback"
  /\ loginResp.status = 503
  /\ sessions # {}

\* C16 (as stated): a login whose profile carries no email ends in an
\* error and returns no user, whether or not its googleId is known
C16_NoEmailAlwaysFails ==
  \A p \in Procs :
    (pc[p] = "done" /\ profile[p].emails = <<>>) =>
      result[p].kind = "error" /\ result[p].id = 0

\* C17 (as stated): after a login resolved by the googleId lookup the
\* stored displayName of the returned user equals the profile's
C17_FastPathRefreshesName ==
  \A p \in Procs :
    (pc[p] = "done" /\ path[p] = "fast") =>
      \A u \in FindById(result[p].id) :
        u.displayName = profile[p].displayName

\* C18 (as stated): once a login has linked googleId g to the user found by
\* email, that user carries g, so that a later login with g is resolved by
\* the googleId lookup
C18_LinkedOnce ==
  \A p \in Procs :
    (pc[p] = "done" /\ path[p] = "link" /\ found[p].googleId = None) =>
      /\ result[p].kind = "ok" /\ result[p].id = found[p].id
      /\ \A u \in FindById(found[p].id) : u.googleId = profile[p].id

\* C19 (as stated): a login that failed on the database is answered with
\* status 503 and success false
C19_StorageFailureIs503 ==
  loginResp.err = "StorageUnavailable" =>
    loginResp.status = 503 /\ ~loginResp.success

\* C20: a callback request whose handshake failed leaves the User
\* collection and every login in progress as they were, logs in no
\* session and is not answered as a success
C20_HandshakeFailureTouchesNothing ==
  [][(/\ logins' # logins
      /\ loginResp'.err = "HandshakeFailed"
      /\ loginResp'.attempt = logins') =>
       /\ users' = users
       /\ nextId' = nextId
       /\ pc' = pc /\ profile' = profile /\ result' = result
       /\ \A r \in sessions' \ sessions : r.passportUser.id = 0
       /\ \A r \in sessions : r \in sessions'
       /\ ~loginResp'.success]_vars

\* a handshake failed while the collection held a user and the store held
\* a logged-in session
C20_Witness ==
  /\ loginResp.err = "HandshakeFailed"
  /\ users # {}
  /\ \E r \in sessions : r.passportUser.id # 0
  /\ \E r \in sessions : r.passportUser.id = 0

\* C21: within one login the lookup by e-mail is issued only after the
\* lookup by googleId returned no match, a save is issued only after the
\* lookup by e-mail was answered (an insert only when it returned no
\* match), and the collection changes only in a save step
C21_StepOrder ==
  [][/\ \A p \in Procs :
         /\ (pc'[p] = "findOne_googleId" /\ pc[p] # pc'[p]) => pc[p] = "idle"
         /\ (pc'[p] = "findOne_email" /\ pc[p] # pc'[p]) =>
               /\ pc[p] = "findOne_googleId"
               /\ FindByGoogleId(profile[p].id) = {}
         /\ (pc'[p] = "save_new" /\ pc[p] # pc'[p]) =>
               /\ pc[p] = "findOne_email"
               /\ FindByEmail(profile[p].emails[1]) = {}
         /\ (pc'[p] = "save_link" /\ pc[p] # pc'[p]) =>
               /\ pc[p] = "findOne_email"
               /\ FindByEmail(profile[p].emails[1]) # {}
     /\ users' # users =>
          \E p \in Procs : pc[p] \in {"save_new", "save_link"}
                            /\ pc'[p] = "done"]_vars

\* one login has inserted and another has linked
C21_Witness ==
  \E p \in Procs, q \in Procs :
    /\ pc[p] = "done" /\ path[p] = "create" /\ result[p].kind = "ok"
    /\ pc[q] = "done" /\ path[q] = "link" /\ result[q].kind = "ok"

\* C22: every step of every login keeps each stored User, with its id, its
\* e-mail and its username
C22_IdEmailUsernameKept ==
  [][\A u \in users :
       \E v \in users' :
         v.id = u.id /\ v.email = u.email /\ v.username = u.username]_vars

\* a link wrote the googleId of a stored User and another login has failed
C22_Witness ==
  \E p \in Procs, q \in Procs :
    /\ pc[p] = "done" /\ path[p] = "link" /\ result[p].kind = "ok"
    /\ found[p].googleId # user[p].googleId
    /\ \E u \in users : u.id = found[p].id /\ u.googleId = user[p].googleId
    /\ pc[q] = "done" /\ result[q].kind = "error"

\* the text of e before its first "@"
LocalPart(e) ==
  SubSeq(e, 1, (CHOOSE k \in 1..Len(e) :
                  e[k] = "@" /\ \A j \in 1..(k - 1) : e[j] # "@") - 1)

\* the User a login with profile prof is to create under id
CreatedUser(id, prof) ==
  [id |-> id, googleId |-> prof.id, username |-> LocalPart(prof.emails[1]),
   email |-> Lower(prof.emails[1]), displayName |-> prof.displayName,
   profileImage |-> IF prof.photos = <<>> THEN "" ELSE prof.photos[1]]

\* the insert of login p is answered by the database
InsertAnswered(p) ==
  /\ pc[p] = "save_new" /\ pc'[p] = "done"
  /\ result'[p].err # "StorageUnavailable"

\* C23 (as stated): a login that matched no User by googleId and none by
\* e-mail adds exactly one User, with the profile's googleId, e-mail,
\* displayName and picture and the e-mail's local part as username, and
\* returns it
C23_CreateAddsOne ==
  [][\A p \in Procs :
       InsertAnswered(p) =>
         /\ result'[p].kind = "ok"
         /\ result'[p].id = user[p].id
         /\ CreatedUser(user[p].id, profile[p]) \notin users
         /\ users' = users \cup {CreatedUser(user[p].id, profile[p])}
    ]_vars

\* C23 (amended): such a login adds exactly that User and returns it,
\* unless, when its insert is issued, a stored User has the e-mail's local
\* part as username or (inserted by a concurrent login) the same e-mail:
\* then the insert is rejected, the login ends with an error and the
\* collection is unchanged
C23_CreateAddsOneUnlessTaken ==
  [][\A p \in Procs :
       InsertAnswered(p) =>
         IF \E u \in users :
              \/ u.username = LocalPart(profile[p].emails[1])
              \/ u.email = Lower(profile[p].emails[1])
         THEN /\ result'[p].kind = "error"
              /\ result'[p].err = "E11000"
              /\ users' = users
         ELSE /\ result'[p].kind = "ok"
              /\ result'[p].id = user[p].id
              /\ CreatedUser(user[p].id, profile[p]) \notin users
              /\ users' = users \cup {CreatedUser(user[p].id, profile[p])}
    ]_vars

\* a User was created from a profile with a picture and an upper-case
\* e-mail, next to the User that existed before
C23_Witness ==
  /\ pc["p1"] = "done" /\ path["p1"] = "create"
  /\ result["p1"].kind = "ok"
  /\ profile["p1"].emails = <<EmailAXu>>
  /\ profile["p1"].photos # <<>>
  /\ SeedUser \in users
  /\ CreatedUser(result["p1"].id, profile["p1"]) \in users

\* C24: a login resolved by the googleId lookup leaves the User collection
\* as it is, in the lookup step and in the rest of the callback
C24_FastPathReadOnly ==
  [][\A p \in Procs :
       (\/ /\ pc[p] = "findOne_googleId" /\ pc'[p] = "done"
           /\ path'[p] = "fast"
        \/ /\ pc[p] = "done" /\ path[p] = "fast" /\ pc'[p] = "idle")
       => users' = users]_vars

\* a login was resolved by googleId with a displayName other than the
\* stored one
C24_Witness ==
  \E p \in Procs :
    /\ pc[p] = "done" /\ path[p] = "fast" /\ result[p].kind = "ok"
    /\ \E u \in users :
         /\ u.id = result[p].id
         /\ u.googleId = profile[p].id
         /\ u.displayName # profile[p].displayName

\* C25 (as stated): a request to a protected route, accepted or rejected,
\* leaves the User collection and the session store as they were when the
\* gate has decided
C25_GateWritesNothing ==
  [][requests' # requests => users' = users /\ sessions' = sessions]_vars

\* C26 (as stated): a request that presents the test token is authenticated
\* as the synthetic test user, also when its cookie names a logged-in
\* session, and a request that presents no token or another value is never
\* authenticated by token
C26_TokenPrecedence ==
  req.phase # "idle" =>
    /\ PresentedToken(req.header, req.query) = TestToken =>
          req.nextCalled /\ req.authBy = "token"
    /\ PresentedToken(req.header, req.query) # TestToken =>
          req.authBy # "token"

\* C27 (as stated): whenever a gate passes a request on, req.user has id,
\* displayName and email defined, on the session channel as on the token
\* channel
C27_CurrentUserShape ==
  req.nextCalled => {"id", "displayName", "email"} \subseteq req.userFields

\* C28: when the lookup by e-mail is answered, a login whose e-mail equals
\* a stored User's e-mail up to letter case goes on to link that User, and
\* constructs a new User only when no stored e-mail equals it up to case
C28_EmailLookupIgnoresCase ==
  [][\A p \in Procs :
       (pc[p] = "findOne_email" /\ pc'[p] \in {"save_link", "save_new"}) =>
         LET same == {u \in users :
                        Lower(u.email) = Lower(profile[p].emails[1])} IN
           IF same # {}
           THEN /\ pc'[p] = "save_link"
                /\ \E u \in same : user'[p].id = u.id
                /\ nextId' = nextId
           ELSE pc'[p] = "save_new"]_vars

\* a login with an upper-case e-mail linked the User stored under the
\* lower-case e-mail
C28_Witness ==
  \E p \in Procs :
    /\ pc[p] = "done" /\ path[p] = "link" /\ result[p].kind = "ok"
    /\ profile[p].emails = <<EmailAXu>>
    /\ found[p].email = EmailAX
    /\ \E u \in users : u.id = result[p].id /\ u.email = EmailAX

\* C29: the insert of a login whose e-mail is new but whose local part is
\* the username of a stored User is rejected: the login gets an error and
\* the collection is unchanged; the callback of a failed login stores no
\* session and is not answered as a success
C29_UsernameCollisionFails ==
  [][\A p \in Procs :
       /\ (/\ pc[p] = "save_new" /\ pc'[p] = "done"
           /\ \E u \in users :
                /\ u.username = LocalPart(profile[p].emails[1])
                /\ u.email # Lower(profile[p].emails[1]))
          => /\ result'[p].kind = "error"
             /\ result'[p].id = 0
             /\ users' = users
       /\ (pc[p] = "done" /\ result[p].kind = "error" /\ pc'[p] = "idle")
          => sessions' = sessions /\ ~loginResp'.success]_vars

\* the first login with a@x was rejected by the username index because the
\* User with a@y has the username a
C29_Witness ==
  \E p \in Procs :
    /\ pc[p] = "done" /\ path[p] = "create"
    /\ result[p].err = "E11000"
    /\ profile[p].emails = <<EmailAX>>
    /\ users = {SeedUser}

\* C30: for every request a gate calls next() once and sends nothing, or
\* sends its 401 once and does not call next()
C30_NextXorReject ==
  req.phase # "idle" =>
    /\ req.nexts + req.sent = 1
    /\ req.nextCalled <=> req.nexts = 1
    /\ (req.sent = 1) => (req.status = 401 /\ req.phase = "responded")
    /\ (req.nexts = 1) => req.status # 401

\* tokenAuth accepted the test token on a request that also carried the
\* cookie of a logged-in session, and the handler has answered
C30_Witness ==
  /\ req.phase = "responded"
  /\ req.gate = "tokenAuth"
  /\ req.authBy = "token"
  /\ req.userId # 0
  /\ req.nexts = 1 /\ req.sent = 0
  /\ req.status = 200

====
